---- MODULE Spec2Model ----
(***************************************************************************)
(* A model of the analytics view, the decision-makers and the HTTP action  *)
(* endpoint of catanatron:                                                 *)
(*   catanatron/analytics.py      build_analytics and its helpers          *)
(*   catanatron/models/player.py  SimplePlayer, HumanPlayer, RandomPlayer, *)
(*                                WebHookPlayer                            *)
(*   catanatron/web/api.py        post_game_endpoint, post_action_endpoint *)
(* The game engine itself (game.py, state_functions.py, players/minimax.py,*)
(* web/models.py, json.py) is not part of the sources modelled here; what  *)
(* the modelled code needs of it is written from the specification and is  *)
(* marked "from the specification" below.                                  *)
(*                                                                         *)
(* Probabilities are counted in 36ths (number_probability(6) = 5/36 is 5), *)
(* and evaluator scores are integers.                                      *)
(***************************************************************************)
EXTENDS Integers, Sequences, FiniteSets, TLC

VARIABLES
    \* --- SpecBoard: a board under construction and the last board summary
    board,      \* [node_production, port_nodes, settlements, cities]
    stats,      \* Idle, or [color, result] of the last _player_board_stats
    \* --- SpecAnalytics: a heap of game objects and the last analytics call
    heap,       \* object id -> game state, for the objects allocated
    acall,      \* Idle, or the record of the last build_analytics call
    \* --- SpecDecide: one decide() call of a Player
    dcall,      \* Idle, or the record of the decide call in progress / done
    \* --- Spec: the web API, the persisted games and the last request
    db,         \* game id -> persisted game, for the games stored
    last        \* Idle, or the record of the last request handled

vars == <<board, stats, heap, acall, dcall, db, last>>

None == "None"

\* No call recorded yet.
Idle == [tag |-> "idle"]

(***************************************************************************)
(* Bounds of the model.                                                    *)
(***************************************************************************)
NumNodes == 3        \* nodes of the bounded map: 0 .. NumNodes-1

Nodes == 0 .. (NumNodes - 1)

\* models/player.py, class Color (the games of the model seat two colors)
ColorSeq == <<"RED", "BLUE">>
ColorSet == {ColorSeq[i] : i \in 1..Len(ColorSeq)}

Resources == {"WOOD", "BRICK", "SHEEP"}

Range(s) == {s[i] : i \in 1..Len(s)}

(***************************************************************************)
(* collections.Counter, as analytics.py uses it: a mapping from the keys   *)
(* present to their counts.                                                *)
(***************************************************************************)
EmptyCounter == [k \in {} |-> 0]

CounterGet(c, k) == IF k \in DOMAIN c THEN c[k] ELSE 0

\* Counter.__iadd__ / __add__: counts are added, and only the positive
\* results are kept.
CounterAdd(a, b) ==
    LET ks == DOMAIN a \cup DOMAIN b
        s(k) == CounterGet(a, k) + CounterGet(b, k)
    IN  [k \in {kk \in ks : s(kk) > 0} |-> s(k)]

RECURSIVE SumOver(_, _)
\* sum(counter.values())
SumOver(c, ks) ==
    IF ks = {} THEN 0
    ELSE LET k == CHOOSE kk \in ks : TRUE
         IN  c[k] + SumOver(c, ks \ {k})

CounterTotal(c) == SumOver(c, DOMAIN c)

(***************************************************************************)
(* analytics.py, _player_board_stats (lines 96-122).                       *)
(***************************************************************************)
\* A mutation of ScaleProduction: the city's factor is forgotten.
ScaleProductionUnweighted(np, weight) == np

\* line 108-110: Counter({k: 2 * v for k, v in node_production.items()});
\* the settlements' loop adds the node's own counter (weight 1).
ScaleProduction(np, weight) == [k \in DOMAIN np |-> weight * np[k]]

RECURSIVE AccumulateProduction(_, _, _, _)
\* The two for-loops of lines 104-111: prod_counter += (the node's scaled
\* production), variety.update(keys of the node's production).
AccumulateProduction(node_production, node_ids, weight, acc) ==
    IF node_ids = <<>> THEN acc
    ELSE LET np == node_production[Head(node_ids)]
         IN  AccumulateProduction(node_production, Tail(node_ids), weight,
                 [prod_counter |-> CounterAdd(acc.prod_counter,
                                              ScaleProduction(np, weight)),
                  variety |-> acc.variety \cup DOMAIN np])

\* The port names in the order sorted() gives strings (digits sort before
\* upper-case letters).
PortNamesSorted == <<"3:1", "BRICK", "ORE", "SHEEP", "WHEAT", "WOOD">>

\* A mutation of PortName: the generic port keeps its key.
PortNameRaw(res) == res

\* line 116: res if res else "3:1"
PortName(res) == IF res = None THEN "3:1" ELSE res

\* lines 113-116, then sorted() of line 121
AccessiblePorts(port_nodes, settlements, cities) ==
    LET owned == Range(settlements \o cities)
        names == {PortName(res) : res \in
                    {r \in DOMAIN port_nodes : owned \cap port_nodes[r] # {}}}
    IN  SelectSeq(PortNamesSorted, LAMBDA p : p \in names)

_player_board_stats(node_production, port_nodes, settlements, cities) ==
    LET start == [prod_counter |-> EmptyCounter, variety |-> {}]
        afterS == AccumulateProduction(node_production, settlements, 1, start)
        afterC == AccumulateProduction(node_production, cities, 2, afterS)
    IN  [expected_production |-> CounterTotal(afterC.prod_counter),
         resource_variety |-> Cardinality(afterC.variety),
         ports |-> AccessiblePorts(port_nodes, settlements, cities)]

(***************************************************************************)
(* The boards of the model (from the specification: the Map is built once  *)
(* per game and is immutable; a node holds at most one building; a city    *)
(* replaces a settlement of the same owner).                               *)
(***************************************************************************)
\* What a node can produce: resource -> probability in 36ths of the tiles
\* around it (a node next to the desert only produces nothing).
ProductionChoices ==
    { EmptyCounter,
      [k \in {"WOOD", "BRICK"} |-> IF k = "WOOD" THEN 5 ELSE 2],
      [k \in {"BRICK", "SHEEP"} |-> IF k = "BRICK" THEN 4 ELSE 1] }

\* Port layouts: resource (None for the generic port) -> its nodes.
PortLayouts ==
    { [k \in {None, "WOOD"} |-> IF k = None THEN {0} ELSE {1}],
      [k \in {"BRICK"} |-> {0, 1}] }

NoBuildings == [c \in ColorSet |-> <<>>]

Occupied(b) ==
    UNION {Range(b.settlements[c]) \cup Range(b.cities[c]) : c \in ColorSet}

RemoveFrom(s, x) == SelectSeq(s, LAMBDA y : y # x)

InitBoard ==
    /\ board \in [node_production : [Nodes -> ProductionChoices],
                  port_nodes : PortLayouts,
                  settlements : {NoBuildings},
                  cities : {NoBuildings}]
    /\ stats = Idle

\* Board.build_settlement: the node is free.
BuildSettlement(c, n) ==
    /\ n \notin Occupied(board)
    /\ board' = [board EXCEPT !.settlements[c] = Append(@, n)]
    /\ stats' = Idle

\* Board.build_city: the owner's settlement becomes a city.
BuildCity(c, n) ==
    /\ n \in Range(board.settlements[c])
    /\ board' = [board EXCEPT !.settlements[c] = RemoveFrom(@, n),
                              !.cities[c] = Append(@, n)]
    /\ stats' = Idle

\* _board_summary (lines 125-133) asks _player_board_stats for each color.
ComputeStats(c) ==
    /\ stats = Idle
    /\ stats' = [tag |-> "stats", color |-> c,
                 result |-> _player_board_stats(board.node_production,
                               board.port_nodes, board.settlements[c],
                               board.cities[c])]
    /\ UNCHANGED board

(***************************************************************************)
(* The game engine, from the specification (sections 3, 4.1, 4.2): a turn  *)
(* machine over the board above.  Phases: INITIAL (every color places one  *)
(* settlement), ROLL (MustRoll), MAIN (MainAction).  A settlement and a     *)
(* city upgrade are worth one victory point each; the game is over when a   *)
(* color reaches VpsToWin.                                                  *)
(***************************************************************************)
VpsToWin == 2        \* the configured victory-point threshold
TurnsLimit == 2      \* turns after which automatic play stops

Action(c, t, v) == [color |-> c, action_type |-> t, value |-> v]

\* The value of an action without one (roll, end turn) is the empty tuple; a
\* node n is <<n>>.
NoValue == <<>>

NodeSeq == [i \in 1..NumNodes |-> i - 1]

DefaultMap ==
    [node_production |->
        [n \in Nodes |-> IF n = 0
                         THEN [k \in {"WOOD", "BRICK"} |-> IF k = "WOOD" THEN 5 ELSE 2]
                         ELSE [k \in {"WOOD"} |-> 3]],
     port_nodes |-> [k \in {None, "WOOD"} |-> IF k = None THEN {0} ELSE {1}]]

\* Game(players): a new game.
NewGame(players, map) ==
    [players |-> players,
     current |-> 1,
     phase |-> "INITIAL",
     vp |-> [c \in ColorSet |-> 0],
     log |-> <<>>,
     num_turns |-> 0,
     resources |-> [c \in ColorSet |-> 0],
     discard_limit |-> 7,
     longest_road_color |-> None,
     road_length |-> [c \in ColorSet |-> 0],
     army_color |-> None,
     army_size |-> 0,
     knights |-> [c \in ColorSet |-> 0],
     board |-> [node_production |-> map.node_production,
                port_nodes |-> map.port_nodes,
                robber |-> 0,
                settlements |-> NoBuildings,
                cities |-> NoBuildings]]

\* state.colors
colors(g) == [i \in 1..Len(g.players) |-> g.players[i].color]

current_player(g) == g.players[g.current]

current_color(g) == current_player(g).color

\* Game.winning_color: the color that reached the threshold, or None.
winning_color(g) ==
    IF \E c \in Range(colors(g)) : g.vp[c] >= VpsToWin
    THEN CHOOSE c \in Range(colors(g)) : g.vp[c] >= VpsToWin
    ELSE None

\* state.playable_actions: the ordered legal actions of the color to move.
playable_actions(g) ==
    LET c == current_color(g)
        free == SelectSeq(NodeSeq, LAMBDA n : n \notin Occupied(g.board))
        settle == [i \in 1..Len(free) |-> Action(c, "BUILD_SETTLEMENT", <<free[i]>>)]
        own == g.board.settlements[c]
        city == [i \in 1..Len(own) |-> Action(c, "BUILD_CITY", <<own[i]>>)]
    IN  IF winning_color(g) # None THEN <<>>
        ELSE IF g.phase = "INITIAL" THEN settle
        ELSE IF g.phase = "ROLL" THEN <<Action(c, "ROLL", NoValue)>>
        ELSE settle \o city \o <<Action(c, "END_TURN", NoValue)>>

NextIndex(g) == IF g.current = Len(g.players) THEN 1 ELSE g.current + 1

\* The effect of a legal action on the state.
ApplyAction(g, a) ==
    LET c == a.color
        logged == [g EXCEPT !.log = Append(@, a)]
    IN  CASE a.action_type = "BUILD_SETTLEMENT" ->
                LET built == [logged EXCEPT
                                 !.board.settlements[c] = Append(@, a.value[1]),
                                 !.vp[c] = @ + 1]
                IN  IF g.phase # "INITIAL" THEN built
                    ELSE IF g.current = Len(g.players)
                         THEN [built EXCEPT !.current = 1, !.phase = "ROLL"]
                         ELSE [built EXCEPT !.current = g.current + 1]
          [] a.action_type = "BUILD_CITY" ->
                [logged EXCEPT
                    !.board.settlements[c] = RemoveFrom(@, a.value[1]),
                    !.board.cities[c] = Append(@, a.value[1]),
                    !.vp[c] = @ + 1]
          [] a.action_type = "ROLL" -> [logged EXCEPT !.phase = "MAIN"]
          [] OTHER ->  \* END_TURN
                [logged EXCEPT !.current = NextIndex(g), !.phase = "ROLL",
                               !.num_turns = @ + 1]

Ok(g) == [tag |-> "ok", game |-> g]
Raised(e) == [tag |-> "raise", exc |-> e]

\* Game.execute (apply): an action outside the legal set is refused and the
\* state is left as it was.
Execute(g, a) ==
    IF a \in Range(playable_actions(g)) THEN Ok(ApplyAction(g, a))
    ELSE Raised("ValueError")

(***************************************************************************)
(* catanatron/analytics.py                                                 *)
(***************************************************************************)
\* threat_level of lines 36-40 (and the threat of lines 221-226)
ThreatLevel(points) ==
    IF points >= 8 THEN "HIGH" ELSE IF points >= 6 THEN "MEDIUM" ELSE "LOW"

\* _compress_players_state (lines 21-43); the piece and development-card
\* counts, which the model's games do not carry, are left out.
_compress_players_state(g) ==
    [c \in Range(colors(g)) |->
        [victory_points |-> g.vp[c],
         resources |-> g.resources[c],
         resources_count |-> g.resources[c],
         threat_level |-> ThreatLevel(g.vp[c]),
         has_largest_army |-> (g.army_color = c)]]

\* _describe_action (lines 46-62); an f-string is the pair <<text, value>>.
_describe_action(a) ==
    LET typ == a.action_type
    IN  CASE typ = "BUILD_SETTLEMENT" -> <<"Build settlement at", a.value>>
          [] typ = "BUILD_CITY" -> <<"Upgrade to city at", a.value>>
          [] typ = "BUILD_ROAD" -> <<"Build road between", a.value>>
          [] typ = "BUY_DEVELOPMENT_CARD" -> <<"Buy development card">>
          [] typ = "END_TURN" -> <<"End current turn">>
          [] typ = "ROLL" -> <<"Roll">>
          [] OTHER -> <<typ>>

\* _evaluate_action (lines 65-93)
_evaluate_action(a) ==
    LET typ == a.action_type
    IN  [type |-> typ,
         value |-> a.value,
         description |-> IF typ = "ROLL" THEN <<"Roll dice to get resources">>
                         ELSE _describe_action(a),
         strategic_value |->
             CASE typ = "BUILD_SETTLEMENT" -> "high"
               [] typ = "BUILD_CITY" -> "very_high"
               [] typ = "BUILD_ROAD" -> "medium"
               [] typ = "BUY_DEVELOPMENT_CARD" -> "medium"
               [] typ = "END_TURN" -> "low"
               [] OTHER -> "neutral",
         risk_level |-> IF typ = "ROLL" THEN "medium" ELSE "low"]

\* _board_summary (lines 125-133)
_board_summary(g) ==
    [robber |-> g.board.robber,
     players |-> [c \in Range(colors(g)) |->
                    _player_board_stats(g.board.node_production,
                        g.board.port_nodes, g.board.settlements[c],
                        g.board.cities[c])]]

\* _board_tensor (lines 136-144): the tensor of the gym extras, as a list;
\* its entries are not modelled.
_board_tensor(g, color) == <<"tensor", color>>

RECURSIVE InsertDesc(_, _)
\* x is put behind every entry whose key is not smaller.
InsertDesc(sorted, x) ==
    IF sorted = <<>> THEN <<x>>
    ELSE IF Head(sorted).key >= x.key
         THEN <<Head(sorted)>> \o InsertDesc(Tail(sorted), x)
         ELSE <<x>> \o sorted

RECURSIVE InsertAsc(_, _)
InsertAsc(sorted, x) ==
    IF sorted = <<>> THEN <<x>>
    ELSE IF Head(sorted).key <= x.key
         THEN <<Head(sorted)>> \o InsertAsc(Tail(sorted), x)
         ELSE <<x>> \o sorted

RECURSIVE SortAscFrom(_, _)
SortAscFrom(done, rest) ==
    IF rest = <<>> THEN done
    ELSE SortAscFrom(InsertAsc(done, Head(rest)), Tail(rest))

RECURSIVE SortDescFrom(_, _)
SortDescFrom(done, rest) ==
    IF rest = <<>> THEN done
    ELSE SortDescFrom(InsertDesc(done, Head(rest)), Tail(rest))

\* A mutation of SortedDesc: the order of the sort is forgotten.
SortedAsc(keyed) == SortAscFrom(<<>>, keyed)

\* sorted(xs, key=..., reverse=True) on entries [key, item]: Python's sort is
\* stable, also when reversed.
SortedDesc(keyed) == SortDescFrom(<<>>, keyed)

Items(keyed) == [i \in 1..Len(keyed) |-> keyed[i].item]

Prefix(s, n) == SubSeq(s, 1, IF Len(s) < n THEN Len(s) ELSE n)

\* _score_node (lines 147-172), in 36ths; the production of a node is the
\* sum over its producing tiles, which node_production holds per resource.
_score_node(b, node_id, city) ==
    LET np == b.node_production[node_id]
        production_score == (IF city THEN 2 ELSE 1) * CounterTotal(np)
        variety_bonus == Cardinality(DOMAIN np) * 4
        has_port == \E r \in DOMAIN b.port_nodes : node_id \in b.port_nodes[r]
        port_bonus == IF has_port THEN 36 ELSE 0
    IN  [position |-> node_id,
         score |-> production_score + variety_bonus + port_bonus,
         expected_production |-> production_score,
         resource_variety |-> Cardinality(DOMAIN np),
         has_port |-> has_port]

\* recs.sort(key=score, reverse=True) of lines 178 and 204
SortRecs(recs) ==
    Items(SortedDesc([i \in 1..Len(recs) |-> [key |-> recs[i].score, item |-> recs[i]]]))

\* _settlement_recommendations (lines 175-197); board.buildable_node_ids is
\* the free nodes of the model's board.
_settlement_recommendations(g, color) ==
    LET free == SelectSeq(NodeSeq, LAMBDA n : n \notin Occupied(g.board))
        recs == SortRecs([i \in 1..Len(free) |-> _score_node(g.board, free[i], FALSE)])
    IN  [best_positions |-> Prefix(recs, 5),
         analysis |-> [total_positions |-> Len(recs),
                       best_score |-> IF recs # <<>> THEN recs[1].score ELSE 0],
         action_recommendation |->
             [type |-> "BUILD_SETTLEMENT",
              value |-> IF recs # <<>> THEN <<recs[1].position>> ELSE <<>>]]

\* _city_recommendations (lines 200-211)
_city_recommendations(g, color) ==
    LET own == g.board.settlements[color]
        recs == SortRecs([i \in 1..Len(own) |-> _score_node(g.board, own[i], TRUE)])
    IN  [best_upgrades |-> Prefix(recs, 5),
         analysis |-> [total_options |-> Len(recs),
                       best_score |-> IF recs # <<>> THEN recs[1].score ELSE 0]]

IndexOf(s, x) == CHOOSE i \in 1..Len(s) : s[i] = x /\ \A j \in 1..(i-1) : s[j] # x

Max(S) == CHOOSE x \in S : \A y \in S : y <= x

\* _strategic_analysis (lines 214-241)
_strategic_analysis(g, my_color) ==
    LET cs == colors(g)
        opponent_vps == {g.vp[c] : c \in Range(cs) \ {my_color}}
        max_opp == IF opponent_vps # {} THEN Max(opponent_vps) ELSE 0
        ranking == Items(SortedDesc([i \in 1..Len(cs) |->
                                        [key |-> g.vp[cs[i]], item |-> cs[i]]]))
    IN  [threat |-> ThreatLevel(max_opp),
         position |-> IndexOf(ranking, my_color),
         discard_risk |-> g.resources[my_color] > g.discard_limit]

\* The names bound in the namespace of analytics.py: its imports (lines 1-18)
\* and the functions it defines.  A name a function uses is looked up here
\* (and then among the builtins) when the line that uses it runs.
AnalyticsGlobals ==
    {"annotations", "Counter", "Any", "Dict", "List", "time",
     "ActionType", "SETTLEMENT", "CITY",
     "player_key", "get_actual_victory_points", "player_num_resource_cards",
     "get_dev_cards_in_hand", "get_longest_road_color", "get_largest_army",
     "get_player_buildings", "number_probability",
     "_compress_players_state", "_describe_action", "_evaluate_action",
     "_player_board_stats", "_board_summary", "_board_tensor", "_score_node",
     "_settlement_recommendations", "_city_recommendations",
     "_strategic_analysis", "_advanced_hints", "_action_history",
     "_bot_evaluations", "build_analytics"}

\* Whether a global name resolves when a line of analytics.py uses it; an
\* unbound name raises NameError.
NameResolves(name) == name \in AnalyticsGlobals

Returned(v) == [tag |-> "return", value |-> v]

\* _advanced_hints (lines 244-266).  Line 249 calls get_longest_road_length
\* and line 260 get_played_dev_cards.
_advanced_hints(g, my_color) ==
    LET longest_owner == g.longest_road_color
        my_length == g.road_length[my_color]
        owner_len == IF longest_owner # None THEN g.road_length[longest_owner] ELSE 0
        road == IF longest_owner # my_color /\ my_length + 1 >= owner_len /\ owner_len >= 5
                THEN <<"Close to longest road">> ELSE <<>>
        threshold == IF g.army_size # 0 THEN g.army_size ELSE 3
        army == IF g.army_color # my_color /\ g.knights[my_color] + 1 >= threshold
                THEN <<"Close to largest army">> ELSE <<>>
        near == IF g.vp[my_color] >= 8 THEN <<"Near victory">> ELSE <<>>
    IN  IF ~NameResolves("get_longest_road_color") THEN Raised("NameError")
        ELSE IF ~NameResolves("get_longest_road_length") THEN Raised("NameError")
        ELSE IF ~NameResolves("get_largest_army") THEN Raised("NameError")
        ELSE IF ~NameResolves("get_played_dev_cards") THEN Raised("NameError")
        ELSE Returned(road \o army \o near)

\* _action_history (lines 269-279): the last `limit` actions.
_action_history(g, limit) ==
    LET n == Len(g.log)
        from == IF n > limit THEN n - limit + 1 ELSE 1
    IN  [i \in 1..(n - from + 1) |->
            [color |-> g.log[from + i - 1].color,
             type |-> g.log[from + i - 1].action_type,
             value |-> g.log[from + i - 1].value]]

MaxScore == 1        \* the evaluator's values are 0 .. MaxScore

\* The depth-1 alpha-beta search of players/minimax.py, from the
\* specification (section 4.3): what AlphaBetaPlayer.alphabeta(game, 1, ...,
\* root) can do when handed the game object `g`.  It returns or it raises,
\* with root.children holding one child (action, expected_value) per action
\* it explored by then, in the order of the legal-action generator: none when the
\* game is over or the deadline has passed, else the legal actions of the
\* color to move, of which the search may have pruned the first.  `left` is
\* the state in which it leaves the object it was handed: untouched, or with
\* a move made on it (make/unmake in place).
SearchOutcomes(g) ==
    LET legal == playable_actions(g)
        explored == IF legal = <<>> THEN {<<>>} ELSE {<<>>, legal, Tail(legal)}
        lefts == {g} \cup (IF legal = <<>> THEN {} ELSE {ApplyAction(g, legal[1])})
        kids == UNION {
                  { [i \in 1..Len(e) |-> [action |-> e[i], expected_value |-> v[i]]]
                      : v \in [1..Len(e) -> 0..MaxScore] } : e \in explored }
    IN  { [tag |-> t, children |-> k, left |-> l] :
              t \in {"ok", "raise"}, k \in kids, l \in lefts }

\* line 293: scores = {child.action: child.expected_value for child in
\* root.children}; a later child of the same action replaces an earlier one.
ActionScores(children) ==
    LET acts == {children[i].action : i \in 1..Len(children)}
        lastOf(a) == CHOOSE i \in 1..Len(children) :
                        /\ children[i].action = a
                        /\ \A j \in (i+1)..Len(children) : children[j].action # a
    IN  [a \in acts |-> children[lastOf(a)].expected_value]

\* line 294: ranked = sorted(root.children, key=expected_value, reverse=True)
RankChildren(children) ==
    Items(SortedDesc([i \in 1..Len(children) |->
                        [key |-> children[i].expected_value, item |-> children[i]]]))

\* A mutation of TopRanked: one more than two is kept.
TopRankedThree(ranked) == Prefix(ranked, 3)

\* line 297: ranked[:2]
TopRanked(ranked) == Prefix(ranked, 2)

\* A prediction's "score" (line 296) next to the fields of _evaluate_action.
WithScore(entry, score) ==
    [type |-> entry.type, value |-> entry.value,
     description |-> entry.description,
     strategic_value |-> entry.strategic_value,
     risk_level |-> entry.risk_level, score |-> score]

\* _bot_evaluations (lines 282-302), given how the search on the copy ended.
_bot_evaluations(search) ==
    IF search.tag = "raise"
    THEN [scores |-> EmptyCounter, predictions |-> <<>>]
    ELSE LET top == TopRanked(RankChildren(search.children))
         IN  [scores |-> ActionScores(search.children),
              predictions |-> [i \in 1..Len(top) |->
                  WithScore(_evaluate_action(top[i].action), top[i].expected_value)]]

\* lines 312-317: one description per playable action, with the score of
\* the action when the search gave it one.
AvailableActions(playable, action_scores) ==
    [i \in 1..Len(playable) |->
        IF playable[i] \in DOMAIN action_scores
        THEN WithScore(_evaluate_action(playable[i]), action_scores[playable[i]])
        ELSE _evaluate_action(playable[i])]

\* build_analytics (lines 305-330), given how the search of line 311 ended:
\* the dictionary it returns, or the exception that leaves it.
build_analytics(g, my_color, playable, search) ==
    LET bot == _bot_evaluations(search)
        hints == _advanced_hints(g, my_color)
    IN  IF hints.tag = "raise" THEN hints
        ELSE Returned(
            [players |-> _compress_players_state(g),
             board |-> [summary |-> _board_summary(g),
                        longest_road_color |-> g.longest_road_color,
                        largest_army_color |-> g.army_color],
             board_tensor |-> _board_tensor(g, my_color),
             available_actions |-> AvailableActions(playable, bot.scores),
             settlement_recommendations |-> _settlement_recommendations(g, my_color),
             city_recommendations |-> _city_recommendations(g, my_color),
             strategic_analysis |-> _strategic_analysis(g, my_color),
             bot_predictions |-> bot.predictions,
             action_history |-> _action_history(g, 5),
             advanced_hints |-> hints.value])

(***************************************************************************)
(* SpecAnalytics: a live game (object Live of the heap) that is played,    *)
(* and build_analytics called on it.  game.copy() allocates object Copy.   *)
(***************************************************************************)
MaxLog == 4          \* the live game is played for at most MaxLog actions

Live == "live"
Copy == "copy"

\* A mutation of SearchedObject: the search is handed the live game.
SearchedObjectLive(live, copy) == live

\* line 291: player.alphabeta(game.copy(), ...): the object searched is the
\* copy.
SearchedObject(live, copy) == copy

SimplePlayers ==
    [i \in 1..Len(ColorSeq) |-> [color |-> ColorSeq[i], kind |-> "SIMPLE", is_bot |-> TRUE]]

MapChoices ==
    { DefaultMap,
      [node_production |-> [n \in Nodes |-> [k \in {"BRICK", "SHEEP"} |-> IF k = "BRICK" THEN 4 ELSE 1]],
       port_nodes |-> [k \in {"BRICK"} |-> {0, 1}]] }

InitAnalytics ==
    /\ \E m \in MapChoices : heap = (Live :> NewGame(SimplePlayers, m))
    /\ acall = Idle

\* The live game goes on: some legal action is applied to it.
Tick ==
    /\ acall = Idle
    /\ Len(heap[Live].log) < MaxLog
    /\ \E a \in Range(playable_actions(heap[Live])) :
          heap' = (Live :> ApplyAction(heap[Live], a))
    /\ acall' = Idle

\* The lists build_analytics is called with: the legal actions of the game,
\* or another list.
ArgLists(g) ==
    LET legal == playable_actions(g)
    IN  {legal} \cup (IF legal = <<>> THEN {} ELSE {Tail(legal)})

\* The caller is done with the result; the copy the search worked on is
\* garbage.
Forget ==
    /\ acall # Idle
    /\ heap' = (Live :> heap[Live])
    /\ acall' = Idle

\* build_analytics(game, my_color, playable_actions) on the live game.
BuildAnalytics ==
    /\ acall = Idle
    /\ \E my_color \in Range(colors(heap[Live])), playable \in ArgLists(heap[Live]) :
        LET copied == (Copy :> heap[Live]) @@ (Live :> heap[Live])
            obj == SearchedObject(Live, Copy)
        IN  \E s \in SearchOutcomes(copied[obj]) :
              /\ heap' = [copied EXCEPT ![obj] = s.left]
              /\ acall' = [tag |-> "call",
                           my_color |-> my_color,
                           playable |-> playable,
                           before |-> heap[Live],
                           search |-> [tag |-> s.tag, children |-> s.children],
                           bot |-> _bot_evaluations(s),
                           outcome |-> build_analytics(heap[Live], my_color, playable, s)]

(***************************************************************************)
(* catanatron/models/player.py: the decision-makers.                        *)
(***************************************************************************)
MaxInputs == 3       \* inputs a HumanPlayer is given in one decide call

\* list[i] of Python, i counted from 0: a negative index counts from the
\* end, an index outside the list raises IndexError.
PyIndex(list, i) ==
    LET n == Len(list)
    IN  IF 0 <= i /\ i < n THEN Returned(list[i + 1])
        ELSE IF 0 - n <= i /\ i < 0 THEN Returned(list[n + i + 1])
        ELSE Raised("IndexError")

\* A mutation of SimpleChoice: the first action of the game's own list.
SimpleChoiceOfGame(g, playable) == PyIndex(playable_actions(g), 0)

\* SimplePlayer.decide (lines 65-66): playable_actions[0]
SimpleChoice(g, playable) == PyIndex(playable, 0)

\* RandomPlayer.decide (lines 97-98): random.choice(playable_actions) is any
\* element; it raises IndexError on an empty list.
RandomChoices(g, playable) ==
    IF playable = <<>> THEN {Raised("IndexError")}
    ELSE {Returned(playable[i]) : i \in 1..Len(playable)}

\* What input_fn can hand to HumanPlayer.decide: a line of text, or the end
\* of the input (EOFError).
InputTokens == {"0", "2", " 1 ", "-1", "7", "x", "EOF"}

\* int(x) of line 84: the integer a line denotes (blanks around it are
\* ignored), or ValueError.
ParseInt(x) ==
    CASE x = "0" -> Returned(0)
      [] x = "1" -> Returned(1)
      [] x = "2" -> Returned(2)
      [] x = " 1 " -> Returned(1)
      [] x = "-1" -> Returned(0 - 1)
      [] x = "7" -> Returned(7)
      [] OTHER -> Raised("ValueError")

\* A mutation of HumanLoops: a negative index leaves the loop.
HumanLoopsNoLowerBound(i_set, i, playable) ==
    ~i_set \/ i >= Len(playable)

\* line 80: while i is None or (i < 0 or i >= len(playable_actions))
HumanLoops(i_set, i, playable) ==
    ~i_set \/ (i < 0 \/ i >= Len(playable))

\* HumanPlayer.decide, lines 77-80: the actions are listed and i = None.
HumanStart(g, c, playable) ==
    /\ dcall = Idle
    /\ dcall' = [tag |-> "decide", kind |-> "HUMAN", color |-> c, game |-> g,
                 playable |-> playable, pc |-> "prompt",
                 i_set |-> FALSE, i |-> 0, reads |-> <<>>,
                 outcome |-> Idle]

\* One turn of the loop of lines 80-86 on the input x, and line 88 when the
\* loop is left.
HumanInput(x) ==
    /\ dcall # Idle /\ dcall.kind = "HUMAN" /\ dcall.pc = "prompt"
    /\ HumanLoops(dcall.i_set, dcall.i, dcall.playable)
    /\ Len(dcall.reads) < MaxInputs
    /\ LET parsed == ParseInt(x)
           i_set == dcall.i_set \/ parsed.tag = "return"
           i == IF parsed.tag = "return" THEN parsed.value ELSE dcall.i
           read == [dcall EXCEPT !.reads = Append(@, x), !.i_set = i_set, !.i = i]
       IN  dcall' =
             IF x = "EOF"
             THEN [dcall EXCEPT !.reads = Append(@, x), !.pc = "done",
                                !.outcome = Raised("EOFError")]
             ELSE IF HumanLoops(i_set, i, dcall.playable) THEN read
             ELSE [read EXCEPT !.pc = "done",
                               !.outcome = PyIndex(dcall.playable, i)]

\* What the webhook does with a request: the post times out, the status is
\* an error, the body is not JSON, or it is JSON: not an object, or an
\* object whose action_index is absent, null, an integer or a string.
WebhookResponses ==
    { [kind |-> k, index |-> 0, text |-> ""] :
          k \in {"timeout", "http_error", "not_json", "json_list", "absent", "null"} }
    \cup { [kind |-> "int", index |-> n, text |-> ""] : n \in (0 - 2)..3 }
    \cup { [kind |-> "str", index |-> 0, text |-> x] : x \in {"1", "x"} }

\* lines 143-154: the try block and its handler, given the response.
WebHookTry(playable, response) ==
    LET parsed == CASE response.kind = "absent" -> Returned(0)
                    [] response.kind = "int" -> Returned(response.index)
                    [] response.kind = "str" -> ParseInt(response.text)
                    [] OTHER -> Raised("Exception")
    IN  IF parsed.tag = "raise" THEN PyIndex(playable, 0)
        ELSE IF 0 <= parsed.value /\ parsed.value < Len(playable)
             THEN PyIndex(playable, parsed.value)
             ELSE PyIndex(playable, 0)

\* lines 124-142: the payload of the request, given the analytics.
WebHookData(g, c, playable, analytics) ==
    [color |-> c,
     game_state |-> [current_color |-> current_color(g),
                     num_turns |-> g.num_turns,
                     actions_count |-> Len(g.log)],
     analytics |-> analytics,
     actions |-> [i \in 1..Len(playable) |->
                    [color |-> playable[i].color,
                     action_type |-> playable[i].action_type,
                     value |-> playable[i].value]]]

\* WebHookPlayer.decide (lines 108-154), given how the search inside
\* build_analytics ends and what the webhook answers: the requests it posts
\* and how it ends.  build_analytics (line 129) runs before the try block.
WebHookDecide(g, c, playable, search, response) ==
    LET analytics == build_analytics(g, c, playable, search)
    IN  IF analytics.tag = "raise"
        THEN [posted |-> <<>>, outcome |-> analytics]
        ELSE [posted |-> <<[timeout |-> 300,
                            json |-> WebHookData(g, c, playable, analytics.value)]>>,
              outcome |-> WebHookTry(playable, response)]

\* A finished decide call of a player that decides in one step.
Decided(kind, g, c, playable, response, posted, outcome) ==
    [tag |-> "decide", kind |-> kind, color |-> c, game |-> g,
     playable |-> playable, pc |-> "done", response |-> response,
     posted |-> posted, outcome |-> outcome]

NoResponse == [kind |-> "none", index |-> 0, text |-> ""]

DecideSimple(g, c, playable) ==
    /\ dcall = Idle
    /\ dcall' = Decided("SIMPLE", g, c, playable, NoResponse, <<>>,
                        SimpleChoice(g, playable))

DecideRandom(g, c, playable) ==
    /\ dcall = Idle
    /\ \E o \in RandomChoices(g, playable) :
          dcall' = Decided("RANDOM", g, c, playable, NoResponse, <<>>, o)

DecideWebHook(g, c, playable) ==
    /\ dcall = Idle
    /\ \E s \in SearchOutcomes(g), r \in WebhookResponses :
          LET d == WebHookDecide(g, c, playable, s, r)
          IN  dcall' = Decided("WEBHOOK", g, c, playable, r, d.posted, d.outcome)

\* The caller takes the outcome of the call.
DecideReturn ==
    /\ dcall # Idle /\ dcall.pc = "done"
    /\ dcall' = Idle

\* The games decide is called on: a new game, the game after its first legal
\* action, and the game after the first legal action of that.
DecideGame0 == NewGame(SimplePlayers, DefaultMap)
DecideGame1 == ApplyAction(DecideGame0, playable_actions(DecideGame0)[1])
DecideGame2 == ApplyAction(DecideGame1, playable_actions(DecideGame1)[1])
DecideGames == {DecideGame0, DecideGame1, DecideGame2}

(***************************************************************************)
(* Automatic play, from the specification (sections 5, 6): Game.play_tick  *)
(* asks the player to move for its decision and applies it;                *)
(* Game.play_until_human_or_end ticks while the game is not over, a bot is *)
(* to move and the turn limit is not reached.                              *)
(***************************************************************************)
\* How player.decide(game, game.state.playable_actions) can end, by the kind
\* of the player: the players of player.py as modelled above; the value
\* function player that api.py seats for a human returns some legal action.
Decisions(g) ==
    LET player == current_player(g)
        playable == playable_actions(g)
    IN  CASE player.kind = "WEBHOOK" ->
                { WebHookDecide(g, player.color, playable, s, r).outcome :
                      s \in SearchOutcomes(g), r \in WebhookResponses }
          [] player.kind = "SIMPLE" -> {SimpleChoice(g, playable)}
          [] OTHER -> RandomChoices(g, playable)

PlayTick(g) ==
    { IF d.tag = "return" THEN Execute(g, d.value) ELSE Raised(d.exc) :
          d \in Decisions(g) }

PlayStops(g) ==
    \/ winning_color(g) # None
    \/ ~current_player(g).is_bot
    \/ g.num_turns >= TurnsLimit

RECURSIVE PlayUntilAcc(_, _)
\* S: the games in which the loop goes on; R: the ways it has ended.
PlayUntilAcc(S, R) ==
    IF S = {} THEN R
    ELSE LET outs == UNION {PlayTick(g) : g \in S}
             oks == {o.game : o \in {x \in outs : x.tag = "ok"}}
         IN  PlayUntilAcc({g \in oks : ~PlayStops(g)},
                          R \cup {x \in outs : x.tag = "raise"}
                            \cup {Ok(g) : g \in {h \in oks : PlayStops(h)}})

PlayUntilHumanOrEnd(g) ==
    IF PlayStops(g) THEN {Ok(g)} ELSE PlayUntilAcc({g}, {})

(***************************************************************************)
(* catanatron/web/api.py                                                   *)
(***************************************************************************)
\* The id of the game the model stores, and an id no game has.
GameId == "g1"
MissingId == "g0"

PlayerKinds == {"RANDOM", "HUMAN", "WEBHOOK"}

\* player_factory_v2 (lines 31-45): the player of a name and color; only
\* the player seated for "HUMAN" is not a bot.
player_factory_v2(name, color) ==
    [color |-> color, kind |-> name, is_bot |-> (name # "HUMAN")]

\* post_game_endpoint (lines 48-60) with the players of the given names:
\* the game is created and stored.  An unknown name raises ValueError and
\* nothing is stored.
PostGame(names) ==
    /\ GameId \notin DOMAIN db
    /\ IF \A i \in 1..Len(names) : names[i] \in PlayerKinds
       THEN /\ db' = (GameId :> NewGame([i \in 1..Len(names) |->
                                 player_factory_v2(names[i], ColorSeq[i])], DefaultMap))
            /\ last' = [tag |-> "post_game", status |-> 200]
       ELSE /\ db' = db
            /\ last' = [tag |-> "post_game", status |-> 500]

\* The body of a request: no data; the JSON object {}; a JSON object with
\* an "autoplay" member, an action (a list of none or one), or both; a JSON
\* list (holding an action).
Body(kind, autoplay, action) == [kind |-> kind, autoplay |-> autoplay, action |-> action]

\* json.action_from_json, from its use in line 118: the action a JSON object
\* carries; an object that carries none raises.
action_from_json(body) ==
    IF body.action # <<>> THEN Returned(body.action[1]) ELSE Raised("KeyError")

\* lines 90-96: autoplay, from the JSON body or the query string
Autoplay(req) ==
    \/ req.body.kind = "obj" /\ req.body.autoplay
    \/ req.query_autoplay

\* line 100: body_is_empty
BodyIsEmpty(req) == req.body.kind \in {"none", "empty"}

\* A mutation of Branch: a tick whenever a body is there.
BranchTickOnBody(autoplay, all_bots, current_is_bot, body_is_empty) ==
    IF autoplay \/ all_bots THEN "play_until_human_or_end"
    ELSE IF current_is_bot \/ ~body_is_empty THEN "play_tick"
    ELSE "execute"

\* A mutation of Branch: the tick is tried before autoplay.
BranchTickBeforeAutoplay(autoplay, all_bots, current_is_bot, body_is_empty) ==
    IF current_is_bot \/ body_is_empty THEN "play_tick"
    ELSE IF autoplay \/ all_bots THEN "play_until_human_or_end"
    ELSE "execute"

\* lines 102, 114, 117: which of the three mutations the endpoint runs
Branch(autoplay, all_bots, current_is_bot, body_is_empty) ==
    IF autoplay \/ all_bots THEN "play_until_human_or_end"
    ELSE IF current_is_bot \/ body_is_empty THEN "play_tick"
    ELSE "execute"

\* A mutation of GameIsOver: the check is forgotten.
GameIsOverNever(g) == FALSE

\* line 83: game.winning_color() is not None
GameIsOver(g) == winning_color(g) # None

Response(status, d, calls, game) ==
    [status |-> status, db |-> d, calls |-> calls, game |-> game]

\* post_action_endpoint (lines 77-130): the ways the request can end, each
\* with the status of the response, the games stored afterwards, the
\* mutating calls made in order, and the game sent back (none on an error).
post_action_endpoint(d, game_id, req) ==
    IF game_id \notin DOMAIN d THEN {Response(404, d, <<>>, <<>>)}
    ELSE
    LET game == d[game_id]
    IN  IF GameIsOver(game) THEN {Response(200, d, <<>>, <<game>>)}
        \* line 93: request.json.get on a JSON list raises AttributeError
        ELSE IF req.body.kind = "list" THEN {Response(500, d, <<>>, <<>>)}
        ELSE
        LET all_bots == \A i \in 1..Len(game.players) : game.players[i].is_bot
            branch == Branch(Autoplay(req), all_bots, current_player(game).is_bot,
                             BodyIsEmpty(req))
            parsed == action_from_json(req.body)
            outs == CASE branch = "play_until_human_or_end" -> PlayUntilHumanOrEnd(game)
                      [] branch = "play_tick" -> PlayTick(game)
                      [] OTHER -> IF parsed.tag = "raise" THEN {parsed}
                                  ELSE {Execute(game, parsed.value)}
        IN  { IF o.tag = "ok"
              THEN Response(200, [d EXCEPT ![game_id] = o.game],
                            <<branch, "upsert_game_state">>, <<o.game>>)
              ELSE Response(500, d,
                            IF branch = "execute" /\ parsed.tag = "raise"
                            THEN <<>> ELSE <<branch>>, <<>>)
              : o \in outs }

\* The actions a client may submit for a game: the legal ones, and some
\* that are not (the turn ended by a color that is not to move, a city
\* where the color to move has no settlement).
SubmittedActions(g) ==
    Range(playable_actions(g))
    \cup {Action(c, "END_TURN", NoValue) : c \in ColorSet \ {current_color(g)}}
    \cup {Action(current_color(g), "BUILD_CITY", <<0>>)}

\* The requests of the model for a stored game g.
Requests(g) ==
    { [body |-> Body(k, FALSE, <<>>), query_autoplay |-> FALSE] :
          k \in {"none", "empty"} }
    \cup { [body |-> Body("none", FALSE, <<>>), query_autoplay |-> TRUE],
           [body |-> Body("obj", TRUE, <<>>), query_autoplay |-> FALSE],
           [body |-> Body("obj", FALSE, <<>>), query_autoplay |-> FALSE] }
    \cup { [body |-> Body("obj", FALSE, <<a>>), query_autoplay |-> FALSE] :
          a \in SubmittedActions(g) }
    \cup { [body |-> Body(k, k = "obj", <<playable_actions(g)[1]>>),
            query_autoplay |-> FALSE] :
          k \in IF playable_actions(g) = <<>> THEN {} ELSE {"obj", "list"} }

\* A request to post_action_endpoint is handled.
PostAction(game_id, req) ==
    /\ game_id \in DOMAIN db =>
          \/ GameIsOver(db[game_id])
          \/ db[game_id].num_turns < TurnsLimit
    /\ \E r \in post_action_endpoint(db, game_id, req) :
          /\ db' = r.db
          /\ last' = [tag |-> "post_action", game_id |-> game_id, req |-> req,
                      pre |-> db, status |-> r.status, calls |-> r.calls,
                      game |-> r.game]

(***************************************************************************)
(* The specifications.  Each one runs one part of the program; the         *)
(* variables of the other parts stay idle.                                 *)
(***************************************************************************)
boardVars == <<board, stats>>
analyticsVars == <<heap, acall>>
decideVars == <<dcall>>
apiVars == <<db, last>>

\* --- the board and its per-player summary
InitSpecBoard ==
    /\ InitBoard
    /\ heap = <<>> /\ acall = Idle /\ dcall = Idle /\ db = <<>> /\ last = Idle

BuildSettlementStep ==
    /\ \E c \in ColorSet, n \in Nodes : BuildSettlement(c, n)
    /\ UNCHANGED <<analyticsVars, decideVars, apiVars>>

BuildCityStep ==
    /\ \E c \in ColorSet, n \in Nodes : BuildCity(c, n)
    /\ UNCHANGED <<analyticsVars, decideVars, apiVars>>

ComputeStatsStep ==
    /\ \E c \in ColorSet : ComputeStats(c)
    /\ UNCHANGED <<analyticsVars, decideVars, apiVars>>

NextBoard == BuildSettlementStep \/ BuildCityStep \/ ComputeStatsStep

SpecBoard == InitSpecBoard /\ [][NextBoard]_vars

\* --- build_analytics on a live game
InitSpecAnalytics ==
    /\ InitAnalytics
    /\ board = Idle /\ stats = Idle /\ dcall = Idle /\ db = <<>> /\ last = Idle

TickStep ==
    /\ Tick
    /\ UNCHANGED <<boardVars, decideVars, apiVars>>

BuildAnalyticsStep ==
    /\ BuildAnalytics
    /\ UNCHANGED <<boardVars, decideVars, apiVars>>

ForgetStep ==
    /\ Forget
    /\ UNCHANGED <<boardVars, decideVars, apiVars>>

NextAnalytics == TickStep \/ BuildAnalyticsStep \/ ForgetStep

SpecAnalytics == InitSpecAnalytics /\ [][NextAnalytics]_vars

\* --- one decide call of a player
InitSpecDecide ==
    /\ dcall = Idle
    /\ board = Idle /\ stats = Idle /\ heap = <<>> /\ acall = Idle
    /\ db = <<>> /\ last = Idle

DecideSimpleStep ==
    /\ \E g \in DecideGames, c \in ColorSet : \E playable \in ArgLists(g) :
          DecideSimple(g, c, playable)
    /\ UNCHANGED <<boardVars, analyticsVars, apiVars>>

DecideRandomStep ==
    /\ \E g \in DecideGames, c \in ColorSet : \E playable \in ArgLists(g) :
          DecideRandom(g, c, playable)
    /\ UNCHANGED <<boardVars, analyticsVars, apiVars>>

HumanStartStep ==
    /\ \E g \in DecideGames, c \in ColorSet : \E playable \in ArgLists(g) :
          HumanStart(g, c, playable)
    /\ UNCHANGED <<boardVars, analyticsVars, apiVars>>

HumanInputStep ==
    /\ \E x \in InputTokens : HumanInput(x)
    /\ UNCHANGED <<boardVars, analyticsVars, apiVars>>

DecideWebHookStep ==
    /\ \E g \in DecideGames, c \in ColorSet : \E playable \in ArgLists(g) :
          DecideWebHook(g, c, playable)
    /\ UNCHANGED <<boardVars, analyticsVars, apiVars>>

DecideReturnStep ==
    /\ DecideReturn
    /\ UNCHANGED <<boardVars, analyticsVars, apiVars>>

NextDecide ==
    \/ DecideSimpleStep \/ DecideRandomStep \/ HumanStartStep
    \/ HumanInputStep \/ DecideWebHookStep \/ DecideReturnStep

SpecDecide == InitSpecDecide /\ [][NextDecide]_vars

\* --- the web API
Init ==
    /\ db = <<>> /\ last = Idle
    /\ board = Idle /\ stats = Idle /\ heap = <<>> /\ acall = Idle
    /\ dcall = Idle

PostGameStep ==
    /\ \E names \in [1..Len(ColorSeq) -> PlayerKinds \cup {"NOBODY"}] : PostGame(names)
    /\ UNCHANGED <<boardVars, analyticsVars, decideVars>>

PostActionStep ==
    /\ \E game_id \in {GameId, MissingId} :
          \E req \in (IF game_id \in DOMAIN db THEN Requests(db[game_id])
                      ELSE {[body |-> Body("none", FALSE, <<>>), query_autoplay |-> FALSE]}) :
             PostAction(game_id, req)
    /\ UNCHANGED <<boardVars, analyticsVars, decideVars>>

Next == PostGameStep \/ PostActionStep

Spec == Init /\ [][Next]_vars

(***************************************************************************)
(* The claims.                                                             *)
(***************************************************************************)

\* C5: a call of build_analytics leaves the live game (its state, board,
\* action log and so its playable actions) exactly as it was before the
\* call, whatever the search does to the object it is handed.
C5_LiveGameUntouched ==
    acall.tag = "call" =>
        /\ heap[Live] = acall.before
        /\ playable_actions(heap[Live]) = playable_actions(acall.before)

\* C5, witness: a call during which the search changed the object it worked
\* on (the copy).
C5_SearchChangedCopy ==
    /\ acall.tag = "call"
    /\ heap[Copy] # heap[Live]
    /\ Len(heap[Copy].log) > Len(heap[Live].log)

AnalyticsKeys ==
    {"players", "board", "board_tensor", "available_actions",
     "settlement_recommendations", "city_recommendations",
     "strategic_analysis", "bot_predictions", "action_history",
     "advanced_hints"}

\* C6: for every game, every color of the game and every playable_actions
\* list, build_analytics returns normally and its result has all ten keys.
C6_ReturnsAllKeys ==
    acall.tag = "call" =>
        /\ acall.outcome.tag = "return"
        /\ AnalyticsKeys \subseteq DOMAIN acall.outcome.value

\* C7: build_analytics reports one available_actions entry per playable
\* action, in the same order, each with the type and value of its action.
C7_OneEntryPerAction ==
    acall.tag = "call" =>
        /\ acall.outcome.tag = "return"
        /\ LET av == acall.outcome.value.available_actions
           IN  /\ Len(av) = Len(acall.playable)
               /\ \A i \in 1..Len(av) :
                     /\ av[i].type = acall.playable[i].action_type
                     /\ av[i].value = acall.playable[i].value

\* C8: when my_color is the color to move and playable_actions is its
\* non-empty legal-action list, an entry of available_actions carries the
\* expected value of the root child of its action as "score", and lacks a
\* "score" only if the search produced no root child for its action (none at
\* all when the search raised).
C8_ScoresOfRootChildren ==
    ( /\ acall.tag = "call"
      /\ acall.my_color = current_color(acall.before)
      /\ acall.playable = playable_actions(acall.before)
      /\ acall.playable # <<>> ) =>
        /\ acall.outcome.tag = "return"
        /\ LET av == acall.outcome.value.available_actions
               ch == IF acall.search.tag = "raise" THEN <<>> ELSE acall.search.children
           IN  \A i \in 1..Len(av) :
                 IF \E j \in 1..Len(ch) : ch[j].action = acall.playable[i]
                 THEN /\ "score" \in DOMAIN av[i]
                      /\ \E j \in 1..Len(ch) :
                            /\ ch[j].action = acall.playable[i]
                            /\ av[i].score = ch[j].expected_value
                 ELSE "score" \notin DOMAIN av[i]

\* Child i of the root is listed before child j: its value is higher, or
\* equal and it was explored first.
RankedBefore(ch, i, j) ==
    \/ ch[i].expected_value > ch[j].expected_value
    \/ ch[i].expected_value = ch[j].expected_value /\ i < j

RECURSIVE SumOfNodeTotals(_, _)
\* The sum, over the nodes of a list, of the node's total production.
SumOfNodeTotals(node_production, node_ids) ==
    IF node_ids = <<>> THEN 0
    ELSE CounterTotal(node_production[Head(node_ids)])
            + SumOfNodeTotals(node_production, Tail(node_ids))

WebHookCallFails ==
    \/ dcall.response.kind # "json"
    \/ dcall.response.index < 0
    \/ dcall.response.index >= Len(dcall.playable)

\* C1: for a non-empty playable_actions, WebHookPlayer.decide never raises,
\* and whenever the remote call fails it returns playable_actions[0].
C1_WebHookFallsBack ==
    (/\ dcall.tag = "decide"
     /\ dcall.kind = "WEBHOOK"
     /\ dcall.pc = "done"
     /\ dcall.playable # <<>>)
    => /\ dcall.outcome.tag = "return"
       /\ WebHookCallFails => dcall.outcome.value = dcall.playable[1]

\* C2: whenever a player's decide returns for a non-empty playable_actions,
\* the value returned is one of the elements of playable_actions.
C2_DecideReturnsMember ==
    (/\ dcall.tag = "decide"
     /\ dcall.pc = "done"
     /\ dcall.playable # <<>>
     /\ dcall.outcome.tag = "return")
    => dcall.outcome.value \in Range(dcall.playable)

\* A human player's decide has returned the second of at least two
\* playable actions after an input it had to discard.
C2_HumanReturnedAfterRetry ==
    /\ dcall.tag = "decide"
    /\ dcall.kind = "HUMAN"
    /\ dcall.pc = "done"
    /\ Len(dcall.playable) >= 2
    /\ Len(dcall.reads) >= 2
    /\ dcall.outcome.tag = "return"
    /\ dcall.outcome.value = dcall.playable[2]

\* --- post_action_endpoint (Spec)

\* The last request was made to post_action_endpoint for a stored game that
\* was not over, with a body that carries an action.
ActionSubmitted ==
    /\ last.tag = "post_action"
    /\ last.game_id \in DOMAIN last.pre
    /\ winning_color(last.pre[last.game_id]) = None
    /\ last.req.body.kind \in {"obj", "list"}
    /\ last.req.body.action # <<>>

\* Exactly the submitted action was applied to the game, and stored.
AppliedExactly ==
    /\ last.status = 200
    /\ Execute(last.pre[last.game_id], last.req.body.action[1]).tag = "ok"
    /\ db = [last.pre EXCEPT ![last.game_id] =
                ApplyAction(last.pre[last.game_id], last.req.body.action[1])]
    /\ last.game = <<db[last.game_id]>>

\* The request was answered with an error and the stored games are as they
\* were.
RejectedUnchanged ==
    /\ last.status >= 400
    /\ db = last.pre

SubmittedActionTaken ==
    LET game == last.pre[last.game_id]
    IN  /\ ~Autoplay(last.req)
        /\ \E i \in 1..Len(game.players) : ~game.players[i].is_bot
        /\ ~current_player(game).is_bot

C4_GameOverIsTerminal ==
    [][\A id \in DOMAIN db :
          winning_color(db[id]) # None =>
              /\ id \in DOMAIN db'
              /\ db'[id] = db[id]
              /\ (last' # last /\ last'.tag = "post_action" /\ last'.game_id = id)
                    => /\ last'.calls = <<>>
                       /\ last'.status = 200
                       /\ last'.game = <<db[id]>>]_vars

\* A request that asks for autoplay or carries an action was made for a
\* game that was over, and answered.
C4_RequestOnFinishedGame ==
    /\ last.tag = "post_action"
    /\ last.game_id \in DOMAIN last.pre
    /\ winning_color(last.pre[last.game_id]) # None
    /\ Autoplay(last.req) \/ last.req.body.action # <<>>
    /\ last.status = 200

\* --- the ports of _player_board_stats (SpecBoard)

WebHookCallDone ==
    /\ dcall.tag = "decide"
    /\ dcall.kind = "WEBHOOK"
    /\ dcall.pc = "done"
    /\ dcall.playable # <<>>

\* C12: WebHookPlayer.decide issues its webhook request (the tests of the
\* claim assert that requests.post was called), and every request it issues
\* has a timeout of 300 seconds and a payload whose analytics are those of
\* build_analytics for the game, the player's color and the playable
\* actions.
C12_RequestWithTimeoutAndAnalytics ==
    WebHookCallDone =>
        /\ Len(dcall.posted) = 1
        /\ \A i \in 1..Len(dcall.posted) :
              /\ dcall.posted[i].timeout = 300
              /\ \E s \in SearchOutcomes(dcall.game) :
                    LET a == build_analytics(dcall.game, dcall.color,
                                             dcall.playable, s)
                    IN  /\ a.tag = "return"
                        /\ dcall.posted[i].json.analytics = a.value

\* C13: when the webhook answers with JSON whose action_index is an integer
\* i with 0 <= i < len(playable_actions), decide returns playable_actions[i];
\* an answer without action_index is taken as index 0; a negative index
\* never selects an action from the end of the list (the first is returned).
C13_IndexSelectsAction ==
    WebHookCallDone =>
        /\ (/\ dcall.response.kind = "int"
            /\ 0 <= dcall.response.index
            /\ dcall.response.index < Len(dcall.playable))
              => dcall.outcome = Returned(dcall.playable[dcall.response.index + 1])
        /\ dcall.response.kind = "absent"
              => dcall.outcome = Returned(dcall.playable[1])
        /\ (dcall.response.kind = "int" /\ dcall.response.index < 0)
              => dcall.outcome = Returned(dcall.playable[1])

\* --- HumanPlayer.decide (SpecDecide)

\* The input x is a valid index of the list: it parses as an integer i with
\* 0 <= i < len(playable_actions).
ValidIndex(x, playable) ==
    /\ ParseInt(x).tag = "return"
    /\ 0 <= ParseInt(x).value
    /\ ParseInt(x).value < Len(playable)

\* C14: in a call of HumanPlayer.decide for a non-empty playable_actions,
\* every input before the last one read was not a valid index (it was
\* discarded and another prompt followed); while decide is still asking, no
\* input read so far was a valid index (it returns as soon as one is
\* entered); and when it has returned, the last input read is a valid
\* index i and the value returned is playable_actions[i].
C14_FirstValidIndexReturned ==
    (/\ dcall.tag = "decide"
     /\ dcall.kind = "HUMAN"
     /\ dcall.playable # <<>>)
    => LET n == Len(dcall.reads)
       IN  /\ \A k \in 1..(n - 1) :
                 /\ ~ValidIndex(dcall.reads[k], dcall.playable)
                 /\ dcall.reads[k] # "EOF"
           /\ dcall.pc = "prompt" =>
                 \A k \in 1..n : ~ValidIndex(dcall.reads[k], dcall.playable)
           /\ (dcall.pc = "done" /\ dcall.outcome.tag = "return") =>
                 /\ n >= 1
                 /\ ValidIndex(dcall.reads[n], dcall.playable)
                 /\ dcall.outcome.value
                       = dcall.playable[ParseInt(dcall.reads[n]).value + 1]
           /\ (dcall.pc = "done" /\ n >= 1
                  /\ ValidIndex(dcall.reads[n], dcall.playable)) =>
                 dcall.outcome.tag = "return"

\* decide has returned the second action after a line that is no integer
\* and a negative index were discarded.
C14_ValidAfterTwoDiscarded ==
    /\ dcall.tag = "decide"
    /\ dcall.kind = "HUMAN"
    /\ dcall.pc = "done"
    /\ dcall.reads = <<"x", "-1", " 1 ">>
    /\ dcall.outcome = Returned(dcall.playable[2])

\* --- the dispatch of post_action_endpoint (Spec)

\* The last request was made to post_action_endpoint for a stored game that
\* was not over.
RequestOnUnfinishedGame ==
    /\ last.tag = "post_action"
    /\ last.game_id \in DOMAIN last.pre
    /\ winning_color(last.pre[last.game_id]) = None

\* The call the priority of the claim selects for the last request.
SelectedCall ==
    LET game == last.pre[last.game_id]
        wants_autoplay == \/ last.req.query_autoplay
                          \/ last.req.body.kind = "obj" /\ last.req.body.autoplay
        no_human == \A i \in 1..Len(game.players) : game.players[i].is_bot
        empty_body == last.req.body.kind \in {"none", "empty"}
    IN  IF wants_autoplay \/ no_human THEN "play_until_human_or_end"
        ELSE IF game.players[game.current].is_bot \/ empty_body THEN "play_tick"
        ELSE "execute"

\* C15 as stated: every request on an existing, unfinished game invokes
\* exactly the one of play_until_human_or_end, play_tick and game.execute
\* that the priority selects, and then upsert_game_state exactly once.
C15_OneCallThenUpsert ==
    RequestOnUnfinishedGame =>
        last.calls = <<SelectedCall, "upsert_game_state">>

\* C15, amended: a request on an existing, unfinished game whose JSON body,
\* if any, is an object invokes exactly the one call the priority selects
\* (game.execute only if the body yields an action); if that call returns,
\* upsert_game_state is called exactly once after it and the response is
\* built; if it raises, or the request cannot be read (a JSON list as
\* body, no action in the body), upsert_game_state is not called, the
\* request fails and the stored games are unchanged.
C15_OneCallThenUpsertIfReturned ==
    RequestOnUnfinishedGame =>
        IF last.req.body.kind = "list"
        THEN last.calls = <<>> /\ last.status = 500 /\ db = last.pre
        ELSE \/ /\ last.calls = <<SelectedCall, "upsert_game_state">>
                /\ last.status = 200
                /\ last.game = <<db[last.game_id]>>
             \/ /\ last.calls = <<SelectedCall>>
                /\ last.status = 500
                /\ db = last.pre
             \/ /\ SelectedCall = "execute"
                /\ last.req.body.action = <<>>
                /\ last.calls = <<>>
                /\ last.status = 500
                /\ db = last.pre

\* A bot was to move in a game with a human, the body carried an action,
\* and the tick's result was stored.
C15_TickStoredForBot ==
    /\ RequestOnUnfinishedGame
    /\ last.req.body.action # <<>>
    /\ last.calls = <<"play_tick", "upsert_game_state">>
    /\ Len(db[last.game_id].log) = Len(last.pre[last.game_id].log) + 1

\* --- _advanced_hints (SpecAnalytics)

\* C16: for the game and color of a call of build_analytics, _advanced_hints
\* returns its hints, and among them 'Close to largest army' exactly when
\* the color does not hold the largest army and its played knights + 1 reach
\* the holder's army size (3 when nobody holds it), and 'Close to longest
\* road' exactly when the color does not hold the longest road and its road
\* length + 1 reaches the holder's length (5 when nobody holds it).
C16_CloseToBonusHints ==
    acall.tag = "call" =>
        LET g == acall.before
            c == acall.my_color
            hints == _advanced_hints(g, c)
            army_needed == IF g.army_color = None THEN 3 ELSE g.army_size
            road_needed == IF g.longest_road_color = None THEN 5
                           ELSE g.road_length[g.longest_road_color]
        IN  /\ hints.tag = "return"
            /\ "Close to largest army" \in Range(hints.value)
                  <=> (g.army_color # c /\ g.knights[c] + 1 >= army_needed)
            /\ "Close to longest road" \in Range(hints.value)
                  <=> (g.longest_road_color # c
                       /\ g.road_length[c] + 1 >= road_needed)

====
